---- MODULE Spec2Model ----
(***************************************************************************)
(* Points ledger and donation workflow of the waste_zero backend.          *)
(*                                                                         *)
(* The database runs in Django's default autocommit mode: every            *)
(* Model.save() and every query is its own committed statement.  A request *)
(* handler is therefore a sequence of atomic database steps; the Python    *)
(* code between two statements only touches the handler's local objects    *)
(* and is folded into the statement that follows it.  Each worker serves   *)
(* one request at a time.                                                  *)
(***************************************************************************)
EXTENDS Integers, FiniteSets, Sequences, TLC

\* ---------------------------------------------------------------- bounds
MaxInitBalance == 2
MaxAmount == 2
MaxRequests == 2
MaxSeqRequests == 2
MaxDonations == 1
MaxLimit == 2
MaxUserRequests == 2
MaxBodyEntries == 1
MaxTokens == 3
MaxTime == 2
MaxReviewRequests == 3
MaxRating == 2

\* ------------------------------------------------------------- constants
REWARD_POINTS == 10
\* query_params.get('limit', 10); if limit <= 0: limit = 10
DEFAULT_LIMIT == 10
\* is_token_expired: timedelta(days=1)
TOKEN_DAYS == 1

Users == {"alice", "bob", "admin"}
AllWorkers == {"w1", "w2"}
DonationIds == 1..MaxDonations

\* User.ROLE_CHOICES
ROLE_CHOICES == {"merchant", "consumer", "administrator"}

\* AutoField primary keys: the order in which the accounts were created
UserId(u) == CASE u = "admin" -> 1 [] u = "alice" -> 2 [] u = "bob" -> 3

\* None in verification_token and in token_created_at
NoToken == 0
NoTime == -1

\* Donation.STATUS_CHOICES
STATUS_CHOICES == {"available", "reserved", "collected"}

\* Point model: its concrete fields
PointFields == {"id", "user", "balance", "last_updated"}

NULL == "NULL"

VARIABLES
    point,      \* Point table: user -> balance, one row per user with a record
    donation,   \* Donation table: id -> [donor, recipient, status]
    workers,    \* the request workers of this deployment
    pc,         \* worker -> position inside its handler
    loc,        \* worker -> the handler's local objects
    last,       \* the response sent most recently, none while the next request starts
    nreq,       \* number of requests accepted so far
    rewards,    \* donation id -> reward credits made for it (auxiliary)
    entity,     \* Order, Offer, Transaction, Notification row -> its status
    donation_seq, \* the next primary key of the Donation table
    accounts,   \* User table: id -> the columns the handlers decide on
    user_seq,   \* the next primary key of the User table
    token_seq,  \* the next value generate_verification_token() returns
    now,        \* timezone.now(), in days
    review,     \* Review table: order id -> rating (one-to-one with Order)
    board       \* the leaderboard request answered last and its rows

vars == <<point, donation, workers, pc, loc, last, nreq, rewards, entity,
          donation_seq, accounts, user_seq, token_seq, now, review, board>>

\* What the points and donations handlers neither read nor write, apart
\* from the caller's role.
other_tables == <<accounts, user_seq, token_seq, now, review, board>>
\* What the users, reviews and leaderboard handlers leave alone.
ledger_tables == <<donation, rewards, entity, donation_seq>>

\* request.user.role, request.user.is_staff
UserRole(u) == accounts[u].role
UserIsStaff(u) == accounts[u].is_staff

\* A User row built from the model's field defaults (role 'consumer',
\* is_verified False, no token), AbstractUser's flags included.
NewUser ==
    [role |-> "consumer", is_staff |-> FALSE, is_superuser |-> FALSE,
     is_verified |-> FALSE, verification_token |-> NoToken,
     token_created_at |-> NoTime]

\* No leaderboard request was answered yet.
NoBoard == [limit |-> [typ |-> "none", v |-> 0], rows |-> <<>>]

\* ---------------------------------------------------------------- helpers
NoLoc == [kind |-> "none"]
\* code 0: no response was sent.  note (auxiliary): the case the handler
\* answered in, the donation it reserved, or where the worker died.
Response(kind, code, error, note) ==
    [kind |-> kind, code |-> code, error |-> error, note |-> note]

NoResponse == Response("none", 0, "none", "none")

\* Workers are interchangeable: a request goes to the first idle one.
WorkerRank(w) == IF w = "w1" THEN 1 ELSE 2
Idle(w) ==
    /\ w \in workers /\ pc[w] = "idle"
    /\ \A v \in workers : WorkerRank(v) < WorkerRank(w) => pc[v] # "idle"
\* The model accepts a bounded number of requests: MaxRequests when two
\* workers run concurrently, MaxSeqRequests when one serves them in turn.
RequestBudget == IF workers = AllWorkers THEN MaxRequests ELSE MaxSeqRequests
CanBegin(w) == Idle(w) /\ nreq < RequestBudget

\* A request ends: the worker answers and drops its local objects.
Finish(w, r) ==
    /\ pc' = [pc EXCEPT ![w] = "idle"]
    /\ loc' = [loc EXCEPT ![w] = NoLoc]
    /\ last' = r

\* int(request.data['amount']): payload values are JSON numbers, numeric
\* strings, other text or null.
AmountPayloads ==
    {[typ |-> "int", v |-> n] : n \in (-1)..MaxAmount}
        \cup {[typ |-> "numstr", v |-> 1], [typ |-> "text", v |-> 0],
              [typ |-> "null", v |-> 0]}

int(p) ==
    CASE p.typ \in {"int", "numstr"} -> [exc |-> "none", v |-> p.v]
      [] p.typ = "text" -> [exc |-> "ValueError", v |-> 0]
      [] OTHER -> [exc |-> "TypeError", v |-> 0]

\* amount = int(...); if amount <= 0: raise ValueError
ParseAmount_NoSignCheck(p) == int(p)
ParseAmount(p) ==
    LET r == int(p)
    IN IF r.exc = "none" /\ r.v <= 0 THEN [exc |-> "ValueError", v |-> 0] ELSE r

\* ------------------------------------------------------- points: transfer
\* if from_point.balance < amount: -> 400 "Insufficient points"
InsufficientBalance_NoCheck(balance, amount) == FALSE
InsufficientBalance_OffByOne(balance, amount) == balance + 1 < amount
InsufficientBalance(balance, amount) == balance < amount

\* from_point.balance -= amount
Debit_Noop(balance, amount) == balance
Debit(balance, amount) == balance - amount

\* to_point.balance += amount
Credit(balance, amount) == balance + amount

\* POST points/transfer/ by caller with a body that has the three entries,
\* up to and including the first query
\* (Point.objects.get(user_id=from_user_id)); request.user is not read.
\* caller, pre_from and pre_to (auxiliary) keep request.user and the
\* stored balances at the time the request started.
TransferRequest(w, caller, from, to, amt) ==
    IF ParseAmount(amt).exc # "none"
    THEN /\ Finish(w, IF ParseAmount(amt).exc = "ValueError"
                      THEN Response("transfer", 400, "InvalidArgument", "none")
                      ELSE Response("transfer", 500, "Exception", "none"))
         /\ UNCHANGED <<point, donation, workers, rewards, entity, donation_seq, other_tables>>
    ELSE IF from \notin DOMAIN point
    THEN /\ Finish(w, Response("transfer", 404, "NotFound", "none"))
         /\ UNCHANGED <<point, donation, workers, rewards, entity, donation_seq, other_tables>>
    ELSE /\ pc' = [pc EXCEPT ![w] = "transfer_get_to"]
         /\ loc' = [loc EXCEPT ![w] =
                [kind |-> "transfer", caller |-> caller,
                 from |-> from, to |-> to,
                 amount |-> ParseAmount(amt).v,
                 from_balance |-> point[from], to_balance |-> 0,
                 pre_from |-> point[from],
                 pre_to |-> IF to \in DOMAIN point THEN point[to] ELSE 0]]
         /\ last' = NoResponse
         /\ UNCHANGED <<point, donation, workers, rewards, entity, donation_seq, other_tables>>

\* A body that lacks one of from_user_id, to_user_id, amount is answered
\* 400 before anything is read.
TransferBegin(w) ==
    /\ CanBegin(w)
    /\ nreq' = nreq + 1
    /\ \/ /\ Finish(w, Response("transfer", 400, "MissingField", "none"))
          /\ UNCHANGED <<point, donation, workers, rewards, entity, donation_seq, other_tables>>
       \/ \E caller \in Users, from \in Users, to \in Users,
             amt \in AmountPayloads :
            TransferRequest(w, caller, from, to, amt)

\* to_point = Point.objects.get(user_id=to_user_id), then the balance check
\* on the objects just loaded.
TransferGetTo(w) ==
    /\ w \in workers /\ pc[w] = "transfer_get_to"
    /\ LET l == loc[w] IN
       IF l.to \notin DOMAIN point
       THEN /\ Finish(w, Response("transfer", 404, "NotFound", "none"))
            /\ UNCHANGED <<point, donation, workers, nreq, rewards, entity, donation_seq, other_tables>>
       ELSE IF InsufficientBalance(l.from_balance, l.amount)
       THEN /\ Finish(w, Response("transfer", 400, "InsufficientBalance", "none"))
            /\ UNCHANGED <<point, donation, workers, nreq, rewards, entity, donation_seq, other_tables>>
       ELSE /\ pc' = [pc EXCEPT ![w] = "transfer_save_from"]
            /\ loc' = [loc EXCEPT ![w].to_balance = point[l.to]]
            /\ UNCHANGED <<point, donation, workers, last, nreq, rewards, entity, donation_seq, other_tables>>

\* Model.save() of a loaded row: UPDATE ... WHERE pk; the row exists as
\* no handler deletes Point rows.
TransferSaveFrom(w) ==
    /\ w \in workers /\ pc[w] = "transfer_save_from"
    /\ LET l == loc[w]
           nb == Debit(l.from_balance, l.amount) IN
       /\ point' = [point EXCEPT ![l.from] = nb]
       /\ pc' = [pc EXCEPT ![w] = "transfer_save_to"]
       /\ UNCHANGED <<donation, workers, loc, last, nreq, rewards, entity, donation_seq, other_tables>>

TransferSaveTo(w) ==
    /\ w \in workers /\ pc[w] = "transfer_save_to"
    /\ LET l == loc[w]
           nb == Credit(l.to_balance, l.amount) IN
       /\ point' = [point EXCEPT ![l.to] = nb]
       /\ Finish(w, Response("transfer", 200, "none",
                              IF l.from = l.to THEN "self" ELSE "pair"))
       /\ UNCHANGED <<donation, workers, nreq, rewards, entity, donation_seq, other_tables>>

\* ----------------------------------------------------- points: add points
\* A body without the 'amount' entry.
AbsentAmount == [typ |-> "absent", v |-> 0]

\* PATCH points/<user_id>/add/ with the body entry p, up to the end of the
\* validation: self.get_object() first, then the amount.
AddPointsRequest(w, u, p) ==
    IF u \notin DOMAIN point
    THEN /\ Finish(w, Response("add", 404, "NotFound", "none"))
         /\ UNCHANGED <<point, donation, workers, rewards, entity, donation_seq, other_tables>>
    ELSE IF p = AbsentAmount
    THEN /\ Finish(w, Response("add", 400, "MissingField", "none"))
         /\ UNCHANGED <<point, donation, workers, rewards, entity, donation_seq, other_tables>>
    ELSE IF ParseAmount(p).exc = "ValueError"
    THEN /\ Finish(w, Response("add", 400, "InvalidArgument", "none"))
         /\ UNCHANGED <<point, donation, workers, rewards, entity, donation_seq, other_tables>>
    ELSE IF ParseAmount(p).exc = "TypeError"
    THEN /\ Finish(w, Response("add", 500, "Exception", "none"))
         /\ UNCHANGED <<point, donation, workers, rewards, entity, donation_seq, other_tables>>
    ELSE /\ pc' = [pc EXCEPT ![w] = "add_save"]
         /\ loc' = [loc EXCEPT ![w] =
                [kind |-> "add", user |-> u, amount |-> ParseAmount(p).v,
                 balance |-> point[u]]]
         /\ last' = NoResponse
         /\ UNCHANGED <<point, donation, workers, rewards, entity, donation_seq, other_tables>>

AddPointsBegin(w) ==
    /\ CanBegin(w)
    /\ nreq' = nreq + 1
    /\ \E u \in Users, p \in AmountPayloads \cup {AbsentAmount} :
        AddPointsRequest(w, u, p)

\* Point.add_points: self.balance += amount; self.save().  The response
\* carries the object just saved; note (auxiliary) is its balance.
add_points(w) ==
    /\ w \in workers /\ pc[w] = "add_save"
    /\ LET l == loc[w]
           nb == l.balance + l.amount IN
       /\ point' = [point EXCEPT ![l.user] = nb]
       /\ Finish(w, Response("add", 200, "none", ToString(nb)))
       /\ UNCHANGED <<donation, workers, nreq, rewards, entity, donation_seq, other_tables>>

\* ------------------------------------------------ the status entities
\* The four status views are the same code over four models.  One row of
\* each model exists, with primary key 1; EntityOwner is the user behind
\* the row's owner reference (Order.consumer, Offer.merchant,
\* Transaction.order.offer.merchant, Notification.user).
EntityKinds == {"order", "offer", "transaction", "notification"}
EntityPks == {1}
RequestPks == {1, 2}
EntityOwner(k) == "alice"

\* Order / Offer / Transaction / Notification .STATUS_CHOICES
EntityStatusChoices(k) ==
    CASE k = "order" -> {"pending", "confirmed", "canceled", "completed"}
      [] k = "offer" -> {"available", "reserved", "collected"}
      [] k = "transaction" -> {"pending", "successful", "failed"}
      [] k = "notification" -> {"sent", "read"}

InitialStatus(k) ==
    CASE k = "order" -> "pending"
      [] k = "offer" -> "available"
      [] k = "transaction" -> "pending"
      [] k = "notification" -> "sent"

\* The 'status' entry of a request body: absent, or a string, which is a
\* member of the model's choices or not ("bogus" stands for every other
\* string).
StatusPayloads(choices) ==
    {[typ |-> "absent", v |-> ""]}
        \cup {[typ |-> "str", v |-> s] : s \in choices \cup {"bogus"}}

\* if status_value not in valid_statuses: -> 400 'Must be one of: ...'
InvalidStatus_Never(value, choices) == FALSE
InvalidStatus(value, choices) == value \notin choices

\* ------------------------------------------------------------- donations
\* Model.__init__ rejects a keyword that names no field; the insert then
\* meets the unique index of the one-to-one user column.
PointObjectsCreate(kwargs, user) ==
    IF ~(kwargs \subseteq PointFields) THEN "TypeError"
    ELSE IF user \in DOMAIN point THEN "IntegrityError"
    ELSE "created"

\* Point.objects.create(user=self.donor, points=10)
RewardKwargs_Balance == {"user", "balance"}
RewardKwargs == {"user", "points"}

\* Donation.save(): super().save() commits the row, then the reward.
\* The outcome of the part after the row is written.
DonationSaveReward(row) ==
    IF row.status = "available"
    THEN PointObjectsCreate(RewardKwargs, row.donor)
    ELSE "skipped"

\* The Point table after Donation.save() of row.
PointAfterSave(row) ==
    IF DonationSaveReward(row) = "created"
    THEN [u \in DOMAIN point \cup {row.donor} |->
            IF u = row.donor
            THEN (IF "balance" \in RewardKwargs THEN REWARD_POINTS ELSE 0)
            ELSE point[u]]
    ELSE point

Raised(row) == DonationSaveReward(row) \in {"TypeError", "IntegrityError"}
Rewarded(row) == IF DonationSaveReward(row) = "created" THEN 1 ELSE 0

\* A Donation built from the model's field defaults: no recipient,
\* status 'available'.
NewDonation == [donor |-> NULL, recipient |-> NULL, status |-> "available"]

\* IsDonationOwnerOrAdmin.has_object_permission
IsDonationOwnerOrAdmin(user, obj) ==
    \/ UserRole(user) = "administrator" \/ UserIsStaff(user)
    \/ obj.donor = user
    \/ (obj.recipient # NULL /\ obj.recipient = user)

\* The 'recipient' entry of a request body: absent, null, the id as a JSON
\* string or the id as a JSON number.
RecipientPayloads ==
    {[typ |-> "absent", v |-> NULL], [typ |-> "null", v |-> NULL]}
        \cup {[typ |-> t, v |-> u] : t \in {"str", "int"}, u \in Users}

\* str(request.user.id)
str(u) == [typ |-> "str", v |-> u]

\* Python truth value of a payload entry
Truthy(p) == p.typ \in {"str", "int"}

\* POST donations/: serializer.save(donor=request.user) -> Donation.save().
\* The body carries the title and the description; a body the serializer
\* rejects is answered 400.
DonationCreate(w) ==
    /\ Idle(w)
    /\ \/ /\ Finish(w, Response("create", 400, "InvalidArgument", "none"))
          /\ UNCHANGED <<point, donation, workers, nreq, rewards, entity,
                         donation_seq, other_tables>>
       \/ \E caller \in Users :
            /\ donation_seq \in DonationIds
            /\ LET id == donation_seq
                   row == [NewDonation EXCEPT !.donor = caller] IN
               /\ donation' = [d \in DOMAIN donation \cup {id} |->
                                  IF d = id THEN row ELSE donation[d]]
               /\ donation_seq' = donation_seq + 1
               /\ point' = PointAfterSave(row)
               /\ rewards' = [rewards EXCEPT ![id] = @ + Rewarded(row)]
               /\ Finish(w, IF Raised(row)
                            THEN Response("create", 500, "Exception", "none")
                            ELSE Response("create", 201, "none", "none"))
               /\ UNCHANGED <<workers, nreq, entity, other_tables>>

\* donation.save() of a loaded object: every column is written from the
\* object (UPDATE by primary key, INSERT under that key when the UPDATE
\* matches no row), then Donation.save() goes on to the reward.
WriteDonation(w, okResponse, errResponse) ==
    LET l == loc[w]
        row == l.obj IN
    /\ donation' = [d \in DOMAIN donation \cup {l.don} |->
                       IF d = l.don THEN row ELSE donation[d]]
    /\ point' = PointAfterSave(row)
    /\ rewards' = [rewards EXCEPT ![l.don] = @ + Rewarded(row)]
    /\ Finish(w, IF Raised(row) THEN errResponse ELSE okResponse)
    /\ UNCHANGED <<workers, nreq, entity, donation_seq, other_tables>>

\* PATCH donations/<pk>/status/ up to the end of the validation.  The
\* PermissionDenied that get_object() raises is caught by the handler's
\* own `except Exception` and answered 500.
StatusUpdateRequest(w, caller, d, sp, rp) ==
    IF d \notin DOMAIN donation
    THEN /\ Finish(w, Response("status", 404, "NotFound", "none"))
         /\ UNCHANGED <<point, donation, workers, rewards, entity, donation_seq, other_tables>>
    ELSE IF ~IsDonationOwnerOrAdmin(caller, donation[d])
    THEN /\ Finish(w, Response("status", 500, "Exception", "PermissionDenied"))
         /\ UNCHANGED <<point, donation, workers, rewards, entity, donation_seq, other_tables>>
    ELSE IF sp.typ = "absent"
    THEN /\ Finish(w, Response("status", 400, "MissingField", "none"))
         /\ UNCHANGED <<point, donation, workers, rewards, entity, donation_seq, other_tables>>
    ELSE IF InvalidStatus(sp.v, STATUS_CHOICES)
    THEN /\ Finish(w, Response("status", 400, "InvalidStatus", "none"))
         /\ UNCHANGED <<point, donation, workers, rewards, entity, donation_seq, other_tables>>
    ELSE /\ pc' = [pc EXCEPT ![w] = "status_save"]
         /\ loc' = [loc EXCEPT ![w] =
                [kind |-> "status", don |-> d,
                 obj |-> [donation[d] EXCEPT
                            !.recipient = IF Truthy(rp) THEN rp.v ELSE @,
                            !.status = sp.v]]]
         /\ last' = NoResponse
         /\ UNCHANGED <<point, donation, workers, rewards, entity, donation_seq, other_tables>>

StatusUpdateBegin(w) ==
    /\ CanBegin(w)
    /\ nreq' = nreq + 1
    /\ \E caller \in Users, d \in DonationIds,
          sp \in StatusPayloads(STATUS_CHOICES), rp \in RecipientPayloads :
        StatusUpdateRequest(w, caller, d, sp, rp)

StatusUpdateSave(w) ==
    /\ w \in workers /\ pc[w] = "status_save"
    /\ WriteDonation(w, Response("status", 200, "none", "none"),
                        Response("status", 500, "Exception", "none"))

\* if 'recipient' in request.data and
\*    str(request.user.id) != request.data['recipient']: -> 403
ReserveForbidden_Never(caller, rp) == FALSE
ReserveForbidden(caller, rp) == rp.typ # "absent" /\ str(caller) # rp

\* if donation.status != 'available': -> 400
NotAvailable(obj) == obj.status # "available"

\* donation.recipient_id = request.data['recipient']
\* donation.status = 'reserved'
ReservedRow_KeepRecipient(obj, rp) == [obj EXCEPT !.status = "reserved"]
ReservedRow(obj, rp) == [obj EXCEPT !.recipient = rp.v, !.status = "reserved"]

\* PATCH donations/<pk>/reserve/ by caller with the body entry rp, up to
\* the end of the checks.  caller (auxiliary) keeps request.user.
ReserveRequest(w, caller, d, rp) ==
    IF d \notin DOMAIN donation
    THEN /\ Finish(w, Response("reserve", 404, "NotFound", "none"))
         /\ UNCHANGED <<point, donation, workers, rewards, entity, donation_seq, other_tables>>
    ELSE IF ReserveForbidden(caller, rp)
    THEN /\ Finish(w, Response("reserve", 403, "Forbidden", "none"))
         /\ UNCHANGED <<point, donation, workers, rewards, entity, donation_seq, other_tables>>
    ELSE IF NotAvailable(donation[d])
    THEN /\ Finish(w, Response("reserve", 400, "InvalidTransition", "none"))
         /\ UNCHANGED <<point, donation, workers, rewards, entity, donation_seq, other_tables>>
    ELSE IF rp.typ = "absent"
    THEN /\ Finish(w, Response("reserve", 400, "InvalidArgument", "none"))
         /\ UNCHANGED <<point, donation, workers, rewards, entity, donation_seq, other_tables>>
    ELSE /\ pc' = [pc EXCEPT ![w] = "reserve_save"]
         /\ loc' = [loc EXCEPT ![w] =
                [kind |-> "reserve", don |-> d, caller |-> caller,
                 obj |-> ReservedRow(donation[d], rp)]]
         /\ last' = NoResponse
         /\ UNCHANGED <<point, donation, workers, rewards, entity, donation_seq, other_tables>>

ReserveBegin(w) ==
    /\ CanBegin(w)
    /\ nreq' = nreq + 1
    /\ \E caller \in Users, d \in DonationIds, rp \in RecipientPayloads :
        ReserveRequest(w, caller, d, rp)

ReserveSave(w) ==
    /\ w \in workers /\ pc[w] = "reserve_save"
    /\ WriteDonation(w, Response("reserve", 200, "none", ToString(loc[w].don)),
                        Response("reserve", 500, "Exception", "none"))

\* PUT/PATCH donations/<pk>/ up to serializer.is_valid(): the body rewrites
\* the title and the description of the loaded object; valid tells whether
\* it passes validation.  Every exception, Http404 and PermissionDenied
\* included, is answered 400.
DetailUpdateRequest(w, caller, d, valid) ==
    IF d \notin DOMAIN donation
    THEN /\ Finish(w, Response("detail", 400, "Exception", "Http404"))
         /\ UNCHANGED <<point, donation, workers, rewards, entity, donation_seq, other_tables>>
    ELSE IF ~IsDonationOwnerOrAdmin(caller, donation[d])
    THEN /\ Finish(w, Response("detail", 400, "Exception", "PermissionDenied"))
         /\ UNCHANGED <<point, donation, workers, rewards, entity, donation_seq, other_tables>>
    ELSE IF ~valid
    THEN /\ Finish(w, Response("detail", 400, "Exception", "ValidationError"))
         /\ UNCHANGED <<point, donation, workers, rewards, entity, donation_seq, other_tables>>
    ELSE /\ pc' = [pc EXCEPT ![w] = "detail_save"]
         /\ loc' = [loc EXCEPT ![w] =
                [kind |-> "detail", don |-> d, obj |-> donation[d]]]
         /\ last' = NoResponse
         /\ UNCHANGED <<point, donation, workers, rewards, entity, donation_seq, other_tables>>

DetailUpdateBegin(w) ==
    /\ CanBegin(w)
    /\ nreq' = nreq + 1
    /\ \E caller \in Users, d \in DonationIds, valid \in BOOLEAN :
        DetailUpdateRequest(w, caller, d, valid)

DetailUpdateSave(w) ==
    /\ w \in workers /\ pc[w] = "detail_save"
    /\ WriteDonation(w, Response("detail", 200, "none", "none"),
                        Response("detail", 400, "Exception", "save"))

\* DELETE donations/<pk>/: get_object(), then instance.delete().  Every
\* exception, Http404 and PermissionDenied included, is answered 404.
DonationDeleteRequest(w, caller, d) ==
    IF d \notin DOMAIN donation
    THEN /\ Finish(w, Response("delete", 404, "Exception", "Http404"))
         /\ UNCHANGED <<point, donation, workers, rewards, entity, donation_seq, other_tables>>
    ELSE IF ~IsDonationOwnerOrAdmin(caller, donation[d])
    THEN /\ Finish(w, Response("delete", 404, "Exception", "PermissionDenied"))
         /\ UNCHANGED <<point, donation, workers, rewards, entity, donation_seq, other_tables>>
    ELSE /\ donation' = [x \in DOMAIN donation \ {d} |-> donation[x]]
         /\ Finish(w, Response("delete", 204, "none", "none"))
         /\ UNCHANGED <<point, workers, rewards, entity, donation_seq, other_tables>>

DonationDelete(w) ==
    /\ CanBegin(w)
    /\ nreq' = nreq + 1
    /\ \E caller \in Users, d \in DonationIds :
        DonationDeleteRequest(w, caller, d)

\* ------------------------- orders, offers, transactions, notifications
\* PATCH <orders|offers|transactions|notifications>/<pk>/status/:
\* permission_classes = [CustomIsAuthenticated], nothing per object.  The
\* row that get_object() loads carries no column of this model other than
\* the status that save() overwrites, so the load and the save are one step.
EntityStatusRequest(w, caller, k, pk, sp) ==
    IF pk \notin EntityPks
    THEN /\ Finish(w, Response(k, 404, "NotFound", "none"))
         /\ UNCHANGED <<point, donation, workers, rewards, entity, donation_seq, other_tables>>
    ELSE IF sp.typ = "absent"
    THEN /\ Finish(w, Response(k, 400, "MissingField", "none"))
         /\ UNCHANGED <<point, donation, workers, rewards, entity, donation_seq, other_tables>>
    ELSE IF InvalidStatus(sp.v, EntityStatusChoices(k))
    THEN /\ Finish(w, Response(k, 400, "InvalidStatus", "none"))
         /\ UNCHANGED <<point, donation, workers, rewards, entity, donation_seq, other_tables>>
    ELSE /\ entity' = [entity EXCEPT ![k] = sp.v]
         /\ Finish(w, Response(k, 200, "none", "none"))
         /\ UNCHANGED <<point, donation, workers, rewards, donation_seq, other_tables>>

EntityStatusUpdate(w) ==
    /\ CanBegin(w)
    /\ nreq' = nreq + 1
    /\ \E caller \in Users, k \in EntityKinds, pk \in RequestPks :
       \E sp \in StatusPayloads(EntityStatusChoices(k)) :
        EntityStatusRequest(w, caller, k, pk, sp)

\* ------------------------------------------------------ points: leaderboard
\* The 'limit' query parameter: absent, a numeric string or other text.
LimitParams ==
    {[typ |-> "absent", v |-> 0], [typ |-> "text", v |-> 0]}
        \cup {[typ |-> "numstr", v |-> n] : n \in (-1)..MaxLimit}

\* limit = int(request.query_params.get('limit', 10)); a limit <= 0 becomes 10
ParseLimit(p) ==
    LET r == IF p.typ = "absent" THEN [exc |-> "none", v |-> DEFAULT_LIMIT]
             ELSE int(p)
    IN IF r.exc = "none" /\ r.v <= 0 THEN [exc |-> "none", v |-> DEFAULT_LIMIT]
       ELSE r

\* Point.objects.all().order_by('-balance'): ORDER BY balance DESC and
\* nothing else, so rows of equal balance come in any order the database
\* picks.  Every sequence the query may return.
OrderByBalanceDesc ==
    LET n == Cardinality(DOMAIN point) IN
    {q \in [1..n -> DOMAIN point] :
        /\ \A i \in 1..n, j \in 1..n : i # j => q[i] # q[j]
        /\ \A i \in 1..n, j \in 1..n : i < j => point[q[i]] >= point[q[j]]}

\* queryset[:limit], serialized
Slice(q, limit) ==
    [i \in 1..(IF limit < Len(q) THEN limit ELSE Len(q)) |->
        [user |-> q[i], balance |-> point[q[i]]]]

\* GET points/leaderboard/?limit=p ; every exception is answered 500.
Leaderboard(w) ==
    /\ Idle(w)
    /\ \E caller \in DOMAIN accounts, p \in LimitParams :
        IF ParseLimit(p).exc # "none"
        THEN /\ Finish(w, Response("leaderboard", 500, "Exception", "none"))
             /\ board' = [limit |-> p, rows |-> <<>>]
        ELSE \E q \in OrderByBalanceDesc :
             /\ Finish(w, Response("leaderboard", 200, "none", "none"))
             /\ board' = [limit |-> p, rows |-> Slice(q, ParseLimit(p).v)]
    /\ UNCHANGED <<point, workers, nreq, ledger_tables, accounts, user_seq, token_seq, now, review>>

\* ------------------------------------------------------------------ users
\* A request body as UserSerializer (fields = '__all__') reads it: the
\* entries for role, is_staff, is_superuser and is_verified, each absent or
\* given (JSON).  "bogus" is a role outside ROLE_CHOICES; the other entries
\* of the body are valid.
UserBodyFields == {"role", "is_staff", "is_superuser", "is_verified"}
UserBodies ==
    {b \in [role : {"absent", "bogus"} \cup ROLE_CHOICES,
            is_staff : {"absent", "true", "false"},
            is_superuser : {"absent", "true", "false"},
            is_verified : {"absent", "true", "false"}] :
        Cardinality({f \in UserBodyFields : b[f] # "absent"}) <= MaxBodyEntries}

\* serializer.is_valid(): role is a ChoiceField over ROLE_CHOICES
UserBodyValid(b) == b.role \in ROLE_CHOICES \cup {"absent"}

\* UserSerializer.create / update: every validated entry is written to
\* the row (setattr for each value that is not None).
WriteUserBody_ReadOnlyFlags(row, b) ==
    [row EXCEPT !.role = IF b.role = "absent" THEN @ ELSE b.role]
WriteUserBody(row, b) ==
    [row EXCEPT
       !.role = IF b.role = "absent" THEN @ ELSE b.role,
       !.is_staff = IF b.is_staff = "absent" THEN @ ELSE b.is_staff = "true",
       !.is_superuser = IF b.is_superuser = "absent" THEN @
                        ELSE b.is_superuser = "true",
       !.is_verified = IF b.is_verified = "absent" THEN @
                       ELSE b.is_verified = "true"]

\* User.generate_verification_token(): a fresh secrets.token_urlsafe(32),
\* stamped with timezone.now().
WithNewToken(row) ==
    [row EXCEPT !.verification_token = token_seq, !.token_created_at = now]

\* Requests to the users handlers are counted like the others.
CanBeginUser(w) == Idle(w) /\ nreq < MaxUserRequests

\* POST auth/register/ (AllowAny): serializer.save() inserts the row under
\* the next primary key, then the token is generated and saved, then the
\* mail is sent; a mail backend that raises leaves the row and answers 500.
RegisterRequest(w, b, mailed) ==
    IF ~UserBodyValid(b)
    THEN /\ Finish(w, Response("register", 400, "InvalidArgument", "none"))
         /\ UNCHANGED <<accounts, user_seq, token_seq>>
    ELSE \E u \in Users :
         /\ UserId(u) = user_seq
         /\ token_seq <= MaxTokens
         /\ accounts' = [x \in DOMAIN accounts \cup {u} |->
                            IF x = u THEN WithNewToken(WriteUserBody(NewUser, b))
                            ELSE accounts[x]]
         /\ user_seq' = user_seq + 1
         /\ token_seq' = token_seq + 1
         /\ Finish(w, IF mailed THEN Response("register", 201, "none", u)
                      ELSE Response("register", 500, "Exception", u))

Register(w) ==
    /\ CanBeginUser(w)
    /\ nreq' = nreq + 1
    /\ \E b \in UserBodies, mailed \in BOOLEAN : RegisterRequest(w, b, mailed)
    /\ UNCHANGED <<point, workers, ledger_tables, now, review, board>>

\* IsSelfOrAdmin.has_object_permission
IsSelfOrAdmin_Always(caller, obj) == TRUE
IsSelfOrAdmin(caller, obj) ==
    UserRole(caller) = "administrator" \/ obj = caller

\* PUT/PATCH users/<pk>/ by caller: get_object() answers 404 for a missing
\* row and 403 when IsSelfOrAdmin refuses; is_valid(raise_exception=True)
\* answers 400; perform_update saves the row.
UserUpdateRequest(w, caller, pk, b) ==
    IF pk \notin DOMAIN accounts
    THEN /\ Finish(w, Response("user_update", 404, "NotFound", "none"))
         /\ UNCHANGED accounts
    ELSE IF ~IsSelfOrAdmin(caller, pk)
    THEN /\ Finish(w, Response("user_update", 403, "Forbidden", "none"))
         /\ UNCHANGED accounts
    ELSE IF ~UserBodyValid(b)
    THEN /\ Finish(w, Response("user_update", 400, "InvalidArgument", "none"))
         /\ UNCHANGED accounts
    ELSE /\ accounts' = [accounts EXCEPT ![pk] = WriteUserBody(@, b)]
         /\ Finish(w, Response("user_update", 200, "none", pk))

UserUpdate(w) ==
    /\ CanBeginUser(w)
    /\ nreq' = nreq + 1
    /\ \E caller \in DOMAIN accounts, pk \in Users, b \in UserBodies :
        UserUpdateRequest(w, caller, pk, b)
    /\ UNCHANGED <<point, workers, ledger_tables, user_seq, token_seq, now,
                   review, board>>

\* on_delete of the rows that reference a User: Point.user and
\* Donation.donor CASCADE, Donation.recipient SET_NULL, and
\* Consumer.user -> Order.consumer -> Review.order CASCADE.
PointWithout(u) == [x \in DOMAIN point \ {u} |-> point[x]]
DonationWithout(u) ==
    [d \in {x \in DOMAIN donation : donation[x].donor # u} |->
        IF donation[d].recipient = u
        THEN [donation[d] EXCEPT !.recipient = NULL]
        ELSE donation[d]]
ReviewWithout(u) ==
    [o \in {x \in DOMAIN review : EntityOwner("order") # u} |-> review[o]]

\* DELETE users/<pk>/ by caller: the same get_object(), then
\* perform_destroy.
UserDeleteRequest(w, caller, pk) ==
    IF pk \notin DOMAIN accounts
    THEN /\ Finish(w, Response("user_delete", 404, "NotFound", "none"))
         /\ UNCHANGED <<accounts, point, donation, review>>
    ELSE IF ~IsSelfOrAdmin(caller, pk)
    THEN /\ Finish(w, Response("user_delete", 403, "Forbidden", "none"))
         /\ UNCHANGED <<accounts, point, donation, review>>
    ELSE /\ accounts' = [x \in DOMAIN accounts \ {pk} |-> accounts[x]]
         /\ point' = PointWithout(pk)
         /\ donation' = DonationWithout(pk)
         /\ review' = ReviewWithout(pk)
         /\ Finish(w, Response("user_delete", 204, "none", pk))

UserDelete(w) ==
    /\ CanBeginUser(w)
    /\ nreq' = nreq + 1
    /\ \E caller \in DOMAIN accounts, pk \in Users :
        UserDeleteRequest(w, caller, pk)
    /\ UNCHANGED <<workers, rewards, entity, donation_seq, user_seq,
                   token_seq, now, board>>

\* ----------------------------------------------------- email verification
\* is_token_expired(created_at)
is_token_expired_Never(created_at) == FALSE
is_token_expired(created_at) ==
    IF created_at = NoTime THEN TRUE ELSE now > created_at + TOKEN_DAYS

\* User.objects.get(verification_token=token): the rows that match
TokenHolders(t) == {u \in DOMAIN accounts : accounts[u].verification_token = t}

\* The 'token' entry of a request body: absent (0) or a token string.
TokenPayloads == 0..MaxTokens

\* POST auth/verify-email/ (AllowAny) with the body entry t.
VerifyEmailRequest(w, t) ==
    IF t = NoToken
    THEN /\ Finish(w, Response("verify", 400, "InvalidFormat", "none"))
         /\ UNCHANGED accounts
    ELSE IF TokenHolders(t) = {}
    THEN /\ Finish(w, Response("verify", 400, "InvalidToken", "none"))
         /\ UNCHANGED accounts
    ELSE \E u \in TokenHolders(t) :
         IF is_token_expired(accounts[u].token_created_at)
         THEN /\ Finish(w, Response("verify", 400, "Expired", "none"))
              /\ UNCHANGED accounts
         ELSE /\ accounts' = [accounts EXCEPT ![u] =
                    [@ EXCEPT !.is_verified = TRUE,
                              !.verification_token = NoToken,
                              !.token_created_at = NoTime]]
              /\ Finish(w, Response("verify", 200, "none", u))

VerifyEmail(w) ==
    /\ CanBeginUser(w)
    /\ nreq' = nreq + 1
    /\ \E t \in TokenPayloads : VerifyEmailRequest(w, t)
    /\ UNCHANGED <<point, workers, ledger_tables, user_seq, token_seq, now,
                   review, board>>

\* POST auth/resend-verification/ by caller: a verified caller is answered
\* 400; otherwise a new token replaces the stored one, then the mail.
ResendRequest(w, caller, mailed) ==
    IF accounts[caller].is_verified
    THEN /\ Finish(w, Response("resend", 400, "AlreadyVerified", "none"))
         /\ UNCHANGED <<accounts, token_seq>>
    ELSE /\ token_seq <= MaxTokens
         /\ accounts' = [accounts EXCEPT ![caller] = WithNewToken(@)]
         /\ token_seq' = token_seq + 1
         /\ Finish(w, IF mailed THEN Response("resend", 200, "none", caller)
                      ELSE Response("resend", 500, "Exception", caller))

ResendVerification(w) ==
    /\ CanBeginUser(w)
    /\ nreq' = nreq + 1
    /\ \E caller \in DOMAIN accounts, mailed \in BOOLEAN :
        ResendRequest(w, caller, mailed)
    /\ UNCHANGED <<point, workers, ledger_tables, user_seq, now, review, board>>

\* A day passes.
Tick ==
    /\ now < MaxTime
    /\ now' = now + 1
    /\ UNCHANGED <<point, workers, pc, loc, last, nreq, ledger_tables,
                   accounts, user_seq, token_seq, review, board>>

\* ---------------------------------------------------------------- reviews
\* The 'rating' entry of a request body.
Ratings == 1..MaxRating

\* ReviewSerializer(data=request.data).is_valid(): the order exists, its
\* status is 'completed' and it has no review yet (the one-to-one column).
\* The serializer is given the body only, never the request or the caller.
ReviewBodyValid(order_pk) ==
    /\ order_pk \in EntityPks
    /\ entity["order"] = "completed"
    /\ order_pk \notin DOMAIN review

\* if serializer.is_valid(): serializer.save()
ReviewCreateSaves_Always(valid) == TRUE
ReviewCreateSaves(valid) == valid

CanBeginReview(w) == Idle(w) /\ nreq < MaxReviewRequests

\* POST reviews/ by caller (CustomIsAuthenticated) with the body entries
\* order and rating.
ReviewCreateRequest(w, caller, order_pk, rating) ==
    IF ReviewCreateSaves(ReviewBodyValid(order_pk))
    THEN /\ review' = [o \in DOMAIN review \cup {order_pk} |->
                          IF o = order_pk THEN rating ELSE review[o]]
         /\ Finish(w, Response("review_create", 201, "none", "none"))
    ELSE /\ Finish(w, Response("review_create", 400, "InvalidArgument", "none"))
         /\ UNCHANGED review

ReviewCreate(w) ==
    /\ CanBeginReview(w)
    /\ nreq' = nreq + 1
    /\ \E caller \in DOMAIN accounts, order_pk \in RequestPks, rating \in Ratings :
        ReviewCreateRequest(w, caller, order_pk, rating)
    /\ UNCHANGED <<point, workers, ledger_tables, accounts, user_seq,
                   token_seq, now, board>>

\* PUT/PATCH reviews/<pk>/ by caller (CustomIsAuthenticated, no object
\* permission): super().update() saves the body; Http404 is answered 404
\* and every other exception 400.  A review is named by its order.
ReviewUpdateRequest(w, caller, pk, rating) ==
    IF pk \notin DOMAIN review
    THEN /\ Finish(w, Response("review_update", 404, "NotFound", "none"))
         /\ UNCHANGED review
    ELSE /\ review' = [review EXCEPT ![pk] = rating]
         /\ Finish(w, Response("review_update", 200, "none", "none"))

ReviewUpdate(w) ==
    /\ CanBeginReview(w)
    /\ nreq' = nreq + 1
    /\ \E caller \in DOMAIN accounts, pk \in RequestPks, rating \in Ratings :
        ReviewUpdateRequest(w, caller, pk, rating)
    /\ UNCHANGED <<point, workers, ledger_tables, accounts, user_seq,
                   token_seq, now, board>>

\* DELETE reviews/<pk>/ by caller
ReviewDelete(w) ==
    /\ CanBeginReview(w)
    /\ nreq' = nreq + 1
    /\ \E caller \in DOMAIN accounts, pk \in RequestPks :
        IF pk \notin DOMAIN review
        THEN /\ Finish(w, Response("review_delete", 404, "NotFound", "none"))
             /\ UNCHANGED review
        ELSE /\ review' = [o \in DOMAIN review \ {pk} |-> review[o]]
             /\ Finish(w, Response("review_delete", 204, "none", "none"))
    /\ UNCHANGED <<point, workers, ledger_tables, accounts, user_seq,
                   token_seq, now, board>>

\* ----------------------------------------------------------------- crash
\* The worker process dies (or loses its database connection) between two
\* statements: nothing more of the request runs, what was committed stays.
Crash(w) ==
    /\ w \in workers /\ pc[w] # "idle"
    /\ Finish(w, Response(loc[w].kind, 0, "crash", pc[w]))
    /\ UNCHANGED <<point, donation, workers, nreq, rewards, entity, donation_seq, other_tables>>

\* ------------------------------------------------------------------ init
InitBalances == 0..MaxInitBalance

InitCommon ==
    /\ point \in [{"alice", "bob"} -> InitBalances]
    /\ donation = <<>>
    /\ pc = [w \in AllWorkers |-> "idle"]
    /\ loc = [w \in AllWorkers |-> NoLoc]
    /\ last = NoResponse
    /\ nreq = 0
    /\ rewards = [d \in DonationIds |-> 0]
    /\ entity = [k \in EntityKinds |-> InitialStatus(k)]
    /\ donation_seq = 1
    /\ accounts = [u \in Users |->
                    [NewUser EXCEPT !.role = IF u = "admin"
                                             THEN "administrator"
                                             ELSE "consumer",
                                    !.is_verified = TRUE]]
    /\ user_seq = 4
    /\ token_seq = 1
    /\ now = 0
    /\ review = <<>>
    /\ board = NoBoard

Init == InitCommon /\ workers = AllWorkers
InitSeq == InitCommon /\ workers = {"w1"}

\* The users handlers start from a superuser made with role
\* 'administrator' and one registered consumer who has not verified yet.
InitUsers ==
    /\ point = [u \in {"alice"} |-> 0]
    /\ donation = <<>>
    /\ workers = {"w1"}
    /\ pc = [w \in AllWorkers |-> "idle"]
    /\ loc = [w \in AllWorkers |-> NoLoc]
    /\ last = NoResponse
    /\ nreq = 0
    /\ rewards = [d \in DonationIds |-> 0]
    /\ entity = [k \in EntityKinds |-> InitialStatus(k)]
    /\ donation_seq = 1
    /\ accounts = [u \in {"admin", "alice"} |->
                    IF u = "admin"
                    THEN [NewUser EXCEPT !.role = "administrator",
                                         !.is_staff = TRUE,
                                         !.is_superuser = TRUE,
                                         !.is_verified = TRUE]
                    ELSE [NewUser EXCEPT !.verification_token = 1,
                                         !.token_created_at = 0]]
    /\ user_seq = 3
    /\ token_seq = 2
    /\ now = 0
    /\ review = <<>>
    /\ board = NoBoard

NextUsers ==
    \/ \E w \in AllWorkers :
        \/ Register(w)
        \/ UserUpdate(w)
        \/ UserDelete(w)
        \/ VerifyEmail(w)
        \/ ResendVerification(w)
    \/ Tick

\* The reviews handlers start from an order of alice in any status and
\* no review; the status handlers move the order on.
InitReviews ==
    /\ point = [u \in {"alice", "bob"} |-> 0]
    /\ donation = <<>>
    /\ workers = {"w1"}
    /\ pc = [w \in AllWorkers |-> "idle"]
    /\ loc = [w \in AllWorkers |-> NoLoc]
    /\ last = NoResponse
    /\ nreq = 0
    /\ rewards = [d \in DonationIds |-> 0]
    /\ \E st \in EntityStatusChoices("order") :
        entity = [k \in EntityKinds |->
                    IF k = "order" THEN st ELSE InitialStatus(k)]
    /\ donation_seq = 1
    /\ accounts = [u \in Users |->
                    [NewUser EXCEPT !.role = IF u = "admin"
                                             THEN "administrator"
                                             ELSE "consumer",
                                    !.is_verified = TRUE]]
    /\ user_seq = 4
    /\ token_seq = 1
    /\ now = 0
    /\ review = <<>>
    /\ board = NoBoard

NextReviews ==
    \E w \in AllWorkers :
        \/ ReviewCreate(w)
        \/ ReviewUpdate(w)
        \/ ReviewDelete(w)
        \/ EntityStatusUpdate(w)

\* Leaderboard requests between the requests that add points, one
\* worker serving them in turn.
NextBoard ==
    \E w \in AllWorkers :
        \/ Leaderboard(w)
        \/ AddPointsBegin(w)
        \/ add_points(w)

Next ==
    \E w \in AllWorkers :
        \/ TransferBegin(w)
        \/ TransferGetTo(w)
        \/ TransferSaveFrom(w)
        \/ TransferSaveTo(w)
        \/ AddPointsBegin(w)
        \/ add_points(w)
        \/ DonationCreate(w)
        \/ StatusUpdateBegin(w)
        \/ StatusUpdateSave(w)
        \/ ReserveBegin(w)
        \/ ReserveSave(w)
        \/ DetailUpdateBegin(w)
        \/ DetailUpdateSave(w)
        \/ DonationDelete(w)
        \/ EntityStatusUpdate(w)
        \/ Crash(w)

Spec == Init /\ [][Next]_vars
SpecSeq == InitSeq /\ [][Next]_vars
SpecBoard == InitSeq /\ [][NextBoard]_vars
SpecUsers == InitUsers /\ [][NextUsers]_vars
SpecReviews == InitReviews /\ [][NextReviews]_vars

\* ------------------------------------------------------------ properties
TransferOk == Response("transfer", 200, "none", "pair")
TransferRefused == Response("transfer", 400, "InsufficientBalance", "none")

\* C1: a successful transfer between two distinct accounts with stored
\* balances B1, B2 and 0 < amount <= B1 ends with the source at B1 - amount
\* and the destination at B2 + amount, the sum of the two unchanged
\* (requests served one at a time).
C1_TransferMovesAmount ==
    [][\A w \in AllWorkers :
        (pc[w] = "transfer_save_to" /\ pc'[w] = "idle" /\ last' = TransferOk)
        => LET l == loc[w] IN
           /\ 0 < l.amount /\ l.amount <= l.pre_from
           /\ point'[l.from] = l.pre_from - l.amount
           /\ point'[l.to] = l.pre_to + l.amount
           /\ point'[l.from] + point'[l.to] = l.pre_from + l.pre_to]_vars

C1_Witness == last = TransferOk

\* C2: a transfer request that has ended never leaves the debit of the
\* source applied without the credit of the destination.
C2_TransferAtomic ==
    ~(last.kind = "transfer" /\ last.error = "crash"
      /\ last.note = "transfer_save_to")

\* C3: under concurrent transfers, the amount of every debit is at most the
\* source balance stored at the moment the debit is written (the second
\* half of the claim; the total is not conserved where it fails).
C3_NoStaleDebit ==
    [][\A w \in AllWorkers :
        (pc[w] = "transfer_save_from" /\ pc'[w] = "transfer_save_to")
        => loc[w].amount <= point[loc[w].from]]_vars

\* C4: of two Reserve calls that both found the same donation available,
\* only one succeeds: no Reserve succeeds when another Reserve of that
\* donation has succeeded since it read the donation.
C4_OneReserveWins ==
    [][\A w \in AllWorkers :
        (pc[w] = "reserve_save" /\ pc'[w] = "idle" /\ last'.code = 200)
        => ~(last.kind = "reserve" /\ last.code = 200
             /\ last.note = ToString(loc[w].don))]_vars

\* C5: a transfer between existing accounts whose amount exceeds the stored
\* source balance is answered InsufficientBalance and both balances stay
\* as they were when the request started (requests served one at a time).
C5_InsufficientBalanceRefused ==
    [][\A w \in AllWorkers :
        (/\ pc[w] = "transfer_get_to" /\ pc'[w] # "transfer_get_to"
         /\ last'.error # "crash"
         /\ loc[w].to \in DOMAIN point
         /\ loc[w].amount > loc[w].pre_from)
        => /\ last' = TransferRefused
           /\ point' = point
           /\ point'[loc[w].from] = loc[w].pre_from
           /\ point'[loc[w].to] = loc[w].pre_to]_vars

C5_Witness == last = TransferRefused

\* C6: the step that creates a donation with status 'available' raises the
\* donor's balance by exactly REWARD_POINTS.
C6_CreateCreditsDonor ==
    [][\A d \in DonationIds :
        (d \notin DOMAIN donation /\ d \in DOMAIN donation'
         /\ donation'[d].status = "available")
        => LET u == donation'[d].donor IN
           /\ u \in DOMAIN point'
           /\ point'[u] = (IF u \in DOMAIN point THEN point[u] ELSE 0)
                            + REWARD_POINTS]_vars

\* C7: every donation has been rewarded exactly once, whatever was done to
\* it after its creation.
C7_RewardedExactlyOnce ==
    \A d \in DOMAIN donation : rewards[d] = 1

\* C8: a donation that has left 'available' never returns to it.
C8_NoReturnToAvailable ==
    [][\A d \in DOMAIN donation \cap DOMAIN donation' :
        donation[d].status # "available"
        => donation'[d].status # "available"]_vars

\* C9: a status update applied to an available donation does not change
\* its status (only Reserve moves a donation out of 'available').
C9_StatusUpdateKeepsAvailable ==
    [][\A w \in AllWorkers :
        (pc[w] = "status_save" /\ pc'[w] = "idle" /\ last'.error # "crash"
         /\ loc[w].don \in DOMAIN donation
         /\ donation[loc[w].don].status = "available")
        => donation'[loc[w].don].status = "available"]_vars

\* C10: the recipient of a donation is null exactly when its status is
\* 'available'.
C10_RecipientIffNotAvailable ==
    \A d \in DOMAIN donation :
        (donation[d].recipient = NULL) <=> (donation[d].status = "available")

\* A step in which a worker takes up a Reserve request.
ReserveStep ==
    /\ nreq' = nreq + 1
    /\ \/ last'.kind = "reserve"
       \/ \E w \in AllWorkers : pc[w] = "idle" /\ pc'[w] = "reserve_save"

ReserveForbiddenStep == Response("reserve", 403, "Forbidden", "none")
ReserveNotAvailableStep == Response("reserve", 400, "InvalidTransition", "none")

\* C11: a Reserve of an existing donation whose body names a recipient
\* other than the caller (another user's id, or null) is answered
\* Forbidden, and the step leaves the donation table as it was.
C11_ReserveForOtherForbidden ==
    [][ReserveStep =>
       \A w \in AllWorkers : CanBegin(w) =>
       \A d \in DOMAIN donation, caller \in Users,
          rp \in RecipientPayloads :
        (/\ rp.typ # "absent" /\ rp.v # caller
         /\ ReserveRequest(w, caller, d, rp))
        => /\ last' = ReserveForbiddenStep
           /\ donation' = donation
           /\ pc'[w] = "idle"]_vars

C11_Witness ==
    /\ last = ReserveForbiddenStep
    /\ \E d \in DOMAIN donation : donation[d].status = "available"

\* C12: a Reserve of a donation whose status is not 'available', by a
\* caller who reserves for themself (the body names the caller's own id,
\* or no recipient), is answered InvalidTransition and leaves the donation
\* as it was.
C12_ReserveNotAvailable ==
    [][ReserveStep =>
       \A w \in AllWorkers : CanBegin(w) =>
       \A d \in DOMAIN donation : donation[d].status # "available" =>
       \A caller \in Users, rp \in RecipientPayloads :
        (/\ (rp.typ = "absent" \/ rp.v = caller)
         /\ ReserveRequest(w, caller, d, rp))
        => /\ last' = ReserveNotAvailableStep
           /\ donation' = donation]_vars

\* A step in which a worker takes up a status update of a donation
\* (DonationStatusStep) or of one of the four other entities.
DonationStatusStep ==
    /\ nreq' = nreq + 1
    /\ \/ last'.kind = "status"
       \/ \E w \in AllWorkers : pc[w] = "idle" /\ pc'[w] = "status_save"

EntityStatusStep == nreq' = nreq + 1 /\ last'.kind \in EntityKinds

StatusRejected(kind) == Response(kind, 400, "InvalidStatus", "none")

\* The stored status of every entity is a member of its enum.
StatusInEnum ==
    /\ \A d \in DOMAIN donation : donation[d].status \in STATUS_CHOICES
    /\ \A k \in EntityKinds : entity[k] \in EntityStatusChoices(k)

\* The bodies whose 'status' is a string outside choices.
InvalidPayloads(choices) ==
    {sp \in StatusPayloads(choices) : sp.typ = "str" /\ sp.v \notin choices}

\* An invalid status sent for an existing Order, Offer, Transaction or
\* Notification is answered InvalidStatus and nothing is written.
EntityInvalidStatusRejected ==
    [][EntityStatusStep =>
       \A w \in AllWorkers : CanBegin(w) =>
       \A k \in {last'.kind}, pk \in EntityPks, caller \in Users :
       \A sp \in InvalidPayloads(EntityStatusChoices(k)) :
        EntityStatusRequest(w, caller, k, pk, sp)
        => last' = StatusRejected(k) /\ entity' = entity]_vars

\* C13 as stated: for Donation, Order, Offer, Transaction and Notification,
\* a status update of an existing entity whose value is outside the enum
\* is answered InvalidStatus and the stored status is unchanged, whoever
\* the authenticated caller is; the stored status is always in the enum.
C13_InvalidStatusRejected ==
    /\ []StatusInEnum
    /\ EntityInvalidStatusRejected
    /\ [][DonationStatusStep =>
          \A w \in AllWorkers : CanBegin(w) =>
          \A d \in DOMAIN donation, caller \in Users,
             sp \in InvalidPayloads(STATUS_CHOICES),
             rp \in RecipientPayloads :
           StatusUpdateRequest(w, caller, d, sp, rp)
           => last' = StatusRejected("status") /\ donation' = donation]_vars

\* C13 amended: the same, for a Donation only when the caller passes the
\* donation's permission check (donor, bound recipient or administrator);
\* any other caller is refused before the value is looked at.
C13_InvalidStatusRejectedIfPermitted ==
    /\ []StatusInEnum
    /\ EntityInvalidStatusRejected
    /\ [][DonationStatusStep =>
          \A w \in AllWorkers : CanBegin(w) =>
          \A d \in DOMAIN donation, caller \in Users :
          IsDonationOwnerOrAdmin(caller, donation[d]) =>
          \A sp \in InvalidPayloads(STATUS_CHOICES),
             rp \in RecipientPayloads :
           StatusUpdateRequest(w, caller, d, sp, rp)
           => last' = StatusRejected("status") /\ donation' = donation]_vars

C13_Witness ==
    /\ last = StatusRejected("status")
    /\ \E k \in EntityKinds : entity[k] # InitialStatus(k)

\* C14: a status update of an Order, Offer, Transaction or Notification
\* requested by a caller who is neither an administrator nor the owner of
\* the entity is answered Forbidden and leaves the status unchanged.
C14_EntityStatusNeedsOwner ==
    [][EntityStatusStep =>
       \A w \in AllWorkers : CanBegin(w) =>
       \A k \in {last'.kind}, pk \in EntityPks, caller \in Users :
       (UserRole(caller) # "administrator" /\ caller # EntityOwner(k)) =>
       \A sp \in StatusPayloads(EntityStatusChoices(k)) :
        EntityStatusRequest(w, caller, k, pk, sp)
        => last'.error = "Forbidden" /\ entity' = entity]_vars

\* A step in which a worker answers a status update, detail update or
\* delete of a donation at once.
DonationRefusalStep ==
    nreq' = nreq + 1 /\ last'.kind \in {"status", "detail", "delete"}

\* C15: a status update, detail update or delete of a donation requested
\* by a caller who is not administrator or staff, not its donor and not
\* its bound recipient is answered Forbidden and leaves the donation
\* unchanged.
C15_DonationNeedsParticipant ==
    [][DonationRefusalStep =>
       \A w \in AllWorkers : CanBegin(w) =>
       \A d \in DOMAIN donation, caller \in Users :
       (/\ UserRole(caller) # "administrator" /\ ~UserIsStaff(caller)
        /\ donation[d].donor # caller /\ donation[d].recipient # caller) =>
       /\ \A sp \in StatusPayloads(STATUS_CHOICES), rp \in RecipientPayloads :
            StatusUpdateRequest(w, caller, d, sp, rp)
            => last'.error = "Forbidden" /\ donation' = donation
       /\ \A valid \in BOOLEAN :
            DetailUpdateRequest(w, caller, d, valid)
            => last'.error = "Forbidden" /\ donation' = donation
       /\ DonationDeleteRequest(w, caller, d)
            => last'.error = "Forbidden" /\ donation' = donation]_vars

\* A step in which a worker takes up an AddPoints request.
AddPointsStep ==
    /\ nreq' = nreq + 1
    /\ \/ last'.kind = "add"
       \/ \E w \in AllWorkers : pc[w] = "idle" /\ pc'[w] = "add_save"

AddPointsRefused == Response("add", 400, "InvalidArgument", "none")

\* C16: AddPoints on an existing account with an integer amount <= 0 is
\* answered InvalidArgument and changes no balance; with a positive
\* integer amount it is accepted, raises the stored balance of that
\* account by exactly the amount, changes no other balance and answers
\* with the new balance (requests served one at a time).
C16_AddPoints ==
    /\ [][AddPointsStep =>
          \A w \in AllWorkers : CanBegin(w) =>
          \A u \in DOMAIN point, p \in AmountPayloads :
           (p.typ = "int" /\ AddPointsRequest(w, u, p))
           => IF p.v <= 0
              THEN last' = AddPointsRefused /\ point' = point
              ELSE /\ pc'[w] = "add_save" /\ point' = point
                   /\ loc'[w].user = u /\ loc'[w].amount = p.v]_vars
    /\ [][\A w \in AllWorkers :
           (pc[w] = "add_save" /\ pc'[w] = "idle" /\ last'.error # "crash")
           => LET u == loc[w].user IN
              /\ loc[w].amount > 0
              /\ point'[u] = point[u] + loc[w].amount
              /\ \A v \in DOMAIN point \ {u} : point'[v] = point[v]
              /\ last' = Response("add", 200, "none", ToString(point'[u]))]_vars

\* An AddPoints was refused after another one had raised a balance.
C16_Witness ==
    /\ last = AddPointsRefused
    /\ \E u \in DOMAIN point : point[u] > MaxInitBalance

\* C17: under concurrent AddPoints and Transfer requests no update is
\* lost: every successful write of a credit or a debit changes the stored
\* balance by exactly its amount, so that the final balance is the initial
\* one plus the credits minus the debits (transfers between two distinct
\* accounts).
C17_NoLostUpdate ==
    [][\A w \in AllWorkers :
        /\ (pc[w] = "add_save" /\ pc'[w] = "idle" /\ last'.error # "crash")
           => point'[loc[w].user] = point[loc[w].user] + loc[w].amount
        /\ (/\ pc[w] = "transfer_save_from" /\ pc'[w] = "transfer_save_to"
            /\ loc[w].from # loc[w].to)
           => point'[loc[w].from] = point[loc[w].from] - loc[w].amount
        /\ (/\ pc[w] = "transfer_save_to" /\ pc'[w] = "idle"
            /\ last'.error # "crash" /\ loc[w].from # loc[w].to)
           => point'[loc[w].to] = point[loc[w].to] + loc[w].amount]_vars

\* C18: every account balance is a non-negative integer in every state.
C18_BalancesNonNegative ==
    \A u \in DOMAIN point : point[u] \in Nat

\* A transfer has emptied an account.
C18_Witness ==
    /\ last.kind = "transfer" /\ last.code = 200
    /\ \E u \in DOMAIN point : point[u] = 0
    /\ \E u \in DOMAIN point : point[u] > MaxInitBalance

\* A step of one of the ledger operations that writes a balance.
LedgerWrite ==
    \E w \in AllWorkers :
        /\ pc[w] \in {"transfer_save_from", "transfer_save_to", "add_save"}
        /\ pc'[w] # pc[w]

\* C19: no step creates or removes a balance record, so that each user
\* keeps at most the one record they have; balances change only in the
\* writes of AddPoints and Transfer; a step that creates or rewrites a
\* donation leaves the Point table as it was.
C19_OneRecordPerUser ==
    [][/\ DOMAIN point' = DOMAIN point
       /\ point' # point => LedgerWrite
       /\ donation' # donation => point' = point]_vars

\* A donation was created by a donor who has a balance record.
C19_Witness ==
    /\ last.kind = "create"
    /\ \E d \in DOMAIN donation : donation[d].donor \in DOMAIN point

\* C20: when the reward credit fails during the creation of a donation,
\* the row persists with the data supplied and the creation is answered
\* as a success.
C20_CreateSucceedsWithoutReward ==
    [][\A d \in DonationIds :
        (/\ d \notin DOMAIN donation /\ d \in DOMAIN donation'
         /\ last'.kind = "create"
         /\ Raised(donation'[d]))
        => /\ donation'[d].status = "available"
           /\ donation'[d].recipient = NULL
           /\ last'.code = 201]_vars

\* C25: when a Reserve is answered 200 the stored donation has status
\* 'reserved' and its recipient is the user who made the request; a Reserve
\* of an available donation whose body has no recipient is answered
\* InvalidArgument and leaves the donation table as it was.
C25_ReserveSetsRecipient ==
    [][/\ \A w \in AllWorkers :
            (/\ pc[w] = "reserve_save" /\ pc'[w] = "idle"
             /\ last'.kind = "reserve" /\ last'.code = 200)
            => /\ donation'[loc[w].don].status = "reserved"
               /\ donation'[loc[w].don].recipient = loc[w].caller
       /\ ReserveStep =>
            \A w \in AllWorkers : CanBegin(w) =>
            \A d \in DOMAIN donation : donation[d].status = "available" =>
            \A caller \in Users :
                ReserveRequest(w, caller, d, [typ |-> "absent", v |-> NULL])
                => /\ last' = Response("reserve", 400, "InvalidArgument", "none")
                   /\ donation' = donation
                   /\ pc'[w] = "idle"]_vars

C25_Witness ==
    /\ last.kind = "reserve" /\ last.code = 200
    /\ \E d \in DOMAIN donation :
        donation[d].status = "reserved" /\ donation[d].recipient # NULL

\* The error the checks give when they run in the order Forbidden,
\* NotFound, InvalidTransition, InvalidArgument ("none": every check passes).
ReserveFirstViolated(caller, d, rp) ==
    IF rp.typ # "absent" /\ rp.v # caller THEN "Forbidden"
    ELSE IF d \notin DOMAIN donation THEN "NotFound"
    ELSE IF donation[d].status # "available" THEN "InvalidTransition"
    ELSE IF rp.typ = "absent" THEN "InvalidArgument"
    ELSE "none"

\* C26: a Reserve is answered with the error of the first violated check in
\* the order Forbidden, NotFound, InvalidTransition, InvalidArgument, and is
\* taken up for the write when no check is violated.
C26_ReserveCheckOrder ==
    [][ReserveStep =>
       \A w \in AllWorkers : CanBegin(w) =>
       \A d \in DonationIds, caller \in Users, rp \in RecipientPayloads :
        ReserveRequest(w, caller, d, rp)
        => IF ReserveFirstViolated(caller, d, rp) = "none"
           THEN pc'[w] = "reserve_save"
           ELSE /\ pc'[w] = "idle"
                /\ last'.error = ReserveFirstViolated(caller, d, rp)]_vars

\* C27: a transfer answered 200 whose source and destination are the same
\* user leaves that user's balance as it was when the request started.
C27_SelfTransferNeutral ==
    [][\A w \in AllWorkers :
        (/\ pc[w] = "transfer_save_to" /\ pc'[w] = "idle"
         /\ last'.code = 200
         /\ loc[w].from = loc[w].to)
        => point'[loc[w].from] = loc[w].pre_from]_vars

\* C28: the debit of a transfer never lowers the balance of a user other
\* than the caller when the caller is not an administrator.
C28_NoDebitOfOthers ==
    [][\A w \in AllWorkers :
        (/\ pc[w] = "transfer_save_from" /\ pc'[w] = "transfer_save_to"
         /\ UserRole(loc[w].caller) # "administrator"
         /\ loc[w].from # loc[w].caller)
        => point'[loc[w].from] >= point[loc[w].from]]_vars

\* The limit a leaderboard request asks for: 10 when the parameter is
\* absent, zero or negative.
RequestedLimit(p) ==
    IF p.typ = "absent" \/ p.v <= 0 THEN 10 ELSE p.v

\* C21: an answered leaderboard has at most limit rows (10 when limit is
\* absent, zero or negative), in descending balance, rows of equal balance
\* in ascending account id.
C21_Leaderboard ==
    (last.kind = "leaderboard" /\ last.code = 200) =>
        /\ Len(board.rows) <= RequestedLimit(board.limit)
        /\ \A i \in 1..Len(board.rows), j \in 1..Len(board.rows) :
            i < j =>
              \/ board.rows[i].balance > board.rows[j].balance
              \/ /\ board.rows[i].balance = board.rows[j].balance
                 /\ UserId(board.rows[i].user) < UserId(board.rows[j].user)

\* A step in which a users handler of the given kind answers a request.
UserStep(kind) == nreq' = nreq + 1 /\ last'.kind = kind

\* C23: an update or a delete of an account by a caller who is neither
\* that account nor an administrator is answered 403 and leaves the User
\* table as it was; by the account itself or an administrator, an update
\* with a valid body is answered 200 and a delete removes the row.
C23_OnlySelfOrAdminWrites ==
    [][/\ UserStep("user_update") =>
            \A w \in AllWorkers : CanBeginUser(w) =>
            \A caller \in DOMAIN accounts, pk \in DOMAIN accounts :
                IF UserRole(caller) # "administrator" /\ pk # caller
                THEN \/ last'.code = 403 /\ accounts' = accounts
                     \/ \A b \in UserBodies :
                            ~UserUpdateRequest(w, caller, pk, b)
                ELSE \/ last'.code = 200
                     \/ \A b \in UserBodies :
                            UserBodyValid(b)
                                => ~UserUpdateRequest(w, caller, pk, b)
       /\ UserStep("user_delete") =>
            \A w \in AllWorkers : CanBeginUser(w) =>
            \A caller \in DOMAIN accounts, pk \in DOMAIN accounts :
                \/ IF UserRole(caller) # "administrator" /\ pk # caller
                   THEN last'.code = 403 /\ accounts' = accounts
                   ELSE last'.code = 204 /\ pk \notin DOMAIN accounts'
                \/ ~UserDeleteRequest(w, caller, pk)]_vars

C23_Witness ==
    /\ last.kind \in {"user_update", "user_delete"}
    /\ last.code = 403
    /\ \E u \in DOMAIN accounts : u # "admin" /\ UserRole(u) # "administrator"

\* C29: a registration answered 201 stores an account that is no administrator, not
\* staff, not superuser and not verified, and an update of one's own
\* account by a caller who is no administrator gives that account none of
\* the four.
C29_NoSelfEscalation ==
    [][/\ (UserStep("register") /\ last'.code = 201) =>
            \A u \in DOMAIN accounts' \ DOMAIN accounts :
                /\ accounts'[u].role # "administrator"
                /\ ~accounts'[u].is_staff
                /\ ~accounts'[u].is_superuser
                /\ ~accounts'[u].is_verified
       /\ UserStep("user_update") =>
            \A w \in AllWorkers : CanBeginUser(w) =>
            \A caller \in DOMAIN accounts :
                UserRole(caller) # "administrator" =>
            \A b \in UserBodies :
                UserUpdateRequest(w, caller, caller, b) =>
                    /\ accounts'[caller].role # "administrator"
                    /\ accounts'[caller].is_staff => accounts[caller].is_staff
                    /\ accounts'[caller].is_superuser
                        => accounts[caller].is_superuser
                    /\ accounts'[caller].is_verified
                        => accounts[caller].is_verified]_vars

\* Presenting t would verify an account.
VerifyWouldSucceed(t) ==
    \E u \in TokenHolders(t) : ~is_token_expired(accounts[u].token_created_at)

ReviewStep(kind) == nreq' = nreq + 1 /\ last'.kind = kind

C24_ReviewOnlyForOwnOrder ==
    [][/\ ReviewStep("review_create") =>
            \A w \in AllWorkers : CanBeginReview(w) =>
            \A caller \in DOMAIN accounts, order_pk \in EntityPks :
            \A rating \in Ratings :
                ReviewCreateRequest(w, caller, order_pk, rating) =>
                    IF UserRole(caller) = "administrator"
                    THEN ReviewBodyValid(order_pk) => last'.code = 201
                    ELSE EntityOwner("order") # caller
                            => /\ review' = review
                               /\ ReviewBodyValid(order_pk)
                                    => last'.code = 403
       /\ ReviewStep("review_update") =>
            \A w \in AllWorkers : CanBeginReview(w) =>
            \A caller \in DOMAIN accounts, pk \in DOMAIN review :
            \A rating \in Ratings :
                (/\ UserRole(caller) # "administrator"
                 /\ EntityOwner("order") # caller
                 /\ ReviewUpdateRequest(w, caller, pk, rating))
                => last'.code = 403 /\ review' = review]_vars

====
